---------------------------- MODULE Spec2Model ----------------------------
(***************************************************************************)
(* Model of the JXA bridge helper (pydt3/jxa_helper_v2.js): the object     *)
(* pool (ObjectPoolManager), the JSON translator (JsonTranslator) and the  *)
(* string-in/string-out operations built from them; and of the object      *)
(* cache and the encoder of the helper's first version (part_000).         *)
(*                                                                         *)
(* Eight specifications are given, each over the same variables; the       *)
(* records that belong to the other specifications stay idle.              *)
(*   PoolSpec      the three methods of ObjectPoolManager, one call at a   *)
(*                 time, with a record of what each call returned          *)
(*   Spec          the wrapped operations echo, releaseObjectWithId and    *)
(*                 evalJXACodeSnippet, one whole request per step          *)
(*   HostSpec      the wrapped operations getProperty, getProperties and   *)
(*                 callMethod, with well-formed and malformed requests     *)
(*   CodecSpec     wrapToJson and unwrapFromJson on data without           *)
(*                 references                                              *)
(*   ClassifySpec  wrapToJson and unwrapFromJson on specifiers             *)
(*   MethodSpec    getProperty of methods and of plain properties, with    *)
(*                 room for three handles                                  *)
(*   LegacySpec    the first version's wrapObjToJson, getCachedObject and  *)
(*                 _releaseObjectWithId, one call at a time                *)
(*   LegacyClassifySpec  the first version's wrapObjToJson on specifiers   *)
(***************************************************************************)
EXTENDS Integers, Sequences, FiniteSets, TLC

VARIABLES
    _currentId,      \* ObjectPoolManager._currentId
    _objectIdMap,    \* ObjectPoolManager._objectIdMap : object -> id
    _idObjectMap,    \* ObjectPoolManager._idObjectMap : id -> object
    lastCall,        \* PoolSpec: the last pool method call, its argument and its return
                     \* LegacySpec: the last getCachedObject or release call
    firstId,         \* PoolSpec: per object, what its first getId returned (0: none yet,
                     \*           or that handle has been released since)
    allocated,       \* PoolSpec: the ids put into the maps, in allocation order
    released,        \* PoolSpec, LegacySpec: one release call, picked arbitrarily among
                     \*           those made so far: its id, whether that id had been
                     \*           allocated by then, and the object it was bound to
    op,              \* Spec: name of the wrapped operation of the last request
    request,         \* Spec: the request string of the last request (as JSON text)
    params,          \* Spec: what the inner function received
    inner,           \* Spec: whether the inner function was called, and how it ended
    result,          \* Spec: what the inner function returned
    response,        \* Spec: what the wrapped function returned (or that it threw)
    log,             \* Spec: console.log messages of the last request
    codec,           \* CodecSpec, ClassifySpec: the last wrapToJson call (its argument,
                     \*           whether it threw, the node it returned, the specifiers
                     \*           it evaluated) and what unwrapFromJson then made of
                     \*           that node
                     \* LegacySpec: the same of the last wrapObjToJson call
    count,           \* first version: the counter in getObjectId's closure
    objIdMap,        \* first version: the WeakMap in getObjectId's closure : object -> id
    objectCacheMap   \* first version: the global objectCacheMap : id -> object

poolVars == <<_currentId, _objectIdMap, _idObjectMap>>
callVars == <<lastCall, firstId, allocated, released>>
reqVars  == <<op, request, params, inner, result, response, log>>
legacyVars == <<count, objIdMap, objectCacheMap>>
vars     == <<_currentId, _objectIdMap, _idObjectMap, lastCall, firstId, allocated,
              released, op, request, params, inner, result, response, log, codec,
              count, objIdMap, objectCacheMap>>

(***************************************************************************)
(* Bounds of the model.                                                    *)
(***************************************************************************)
MaxId  == 2      \* no allocation is attempted once _currentId has reached this
MaxLen == 2      \* longest array of host objects an evaluated snippet returns, and
                 \* longest array of primitives given to the encoder
MaxSeconds == 20 \* dates given to the encoder are within this many seconds of the epoch
MaxHandles == 3  \* MethodSpec: no request is served that takes _currentId past this

Ids == 1 .. (MaxId + 1)   \* ids a caller may pass; MaxId + 1 is never allocated

(***************************************************************************)
(* JavaScript values.  Every value is a record of the same shape:          *)
(*   k      typeof-like kind                                               *)
(*   n      the number, the milliseconds of a Date, or the identity of a   *)
(*          specifier / function                                           *)
(*   s      the string                                                     *)
(*   keys   own enumerable keys of an object, in order                     *)
(*   items  the values under keys, or the elements of an array             *)
(***************************************************************************)
Val(k, n, s, keys, items) == [k |-> k, n |-> n, s |-> s, keys |-> keys, items |-> items]

Undef        == Val("undefined", 0, "", <<>>, <<>>)
Null         == Val("null", 0, "", <<>>, <<>>)
Bool(b)      == Val("boolean", IF b THEN 1 ELSE 0, "", <<>>, <<>>)
Num(x)       == Val("number", x, "", <<>>, <<>>)
Str(x)       == Val("string", 0, x, <<>>, <<>>)
DateV(ms)    == Val("date", ms, "", <<>>, <<>>)
Arr(items)   == Val("array", 0, "", <<>>, items)
Obj(ks, vs)  == Val("object", 0, "", ks, vs)      \* constructor.name === 'Object'
Exotic(ks, vs) == Val("exotic", 0, "", ks, vs)    \* an object of any other class
Symbol       == Val("symbol", 0, "", <<>>, <<>>)
Specifier(o) == Val("specifier", o, "", <<>>, <<>>)
Function(o)  == Val("function", o, "", <<>>, <<>>)

\* obj[key] for a string key
Get(obj, key) ==
    LET at == {i \in DOMAIN obj.keys : obj.keys[i] = key} IN
    IF obj.k \in {"object", "exotic"} /\ at # {}
    THEN obj.items[CHOOSE i \in at : TRUE]
    ELSE Undef

(***************************************************************************)
(* Bind(v, F) is F(v), with v evaluated once however often F uses it (a    *)
(* local variable holding the result of a call).                           *)
(***************************************************************************)
Bind(v, F(_)) == CHOOSE y \in {F(x) : x \in {v}} : TRUE

(***************************************************************************)
(* Finite maps (JavaScript Map).                                           *)
(***************************************************************************)
EmptyMap == [x \in {} |-> 0]

MapSet(m, key, v) == [x \in DOMAIN m \cup {key} |-> IF x = key THEN v ELSE m[x]]

MapDelete(m, key) == [x \in DOMAIN m \ {key} |-> m[x]]

MapHas(m, key) == key \in DOMAIN m

\* Map.get: undefined for an absent key
MapGet(m, key) == IF key \in DOMAIN m THEN m[key] ELSE Undef

(***************************************************************************)
(* The host's objects with identity, one per profile: an application       *)
(* specifier, the specifier of an item of it, and a callable function.     *)
(*                                                                         *)
(* A profile tells what the host answers about the object:                 *)
(*   classOf     ObjectSpecifier.classOf(obj), the nominal class           *)
(*   whose, at   whether 'whose' / 'at' is in the prototype                *)
(*   hasClass    whether obj.class is defined                              *)
(*   classQuery  how obj.class() ends: "ok", error "-1700", another "error"*)
(*   class       what obj.class() returns when it ends "ok"                *)
(*   app         the application name in the display string, or null       *)
(***************************************************************************)
Shape(kind, classOf, whose, at, hasClass, classQuery, class, app) ==
    [kind |-> kind, classOf |-> classOf, whose |-> whose, at |-> at, hasClass |-> hasClass,
     classQuery |-> classQuery, class |-> class, app |-> app]

Profiles == <<
    Shape("specifier", "application", FALSE, FALSE, TRUE,  "ok", "application", Str("Finder")),
    Shape("specifier", "item",        FALSE, FALSE, TRUE,  "ok", "folder",      Str("Finder")),
    Shape("function",  "",            FALSE, FALSE, FALSE, "ok", "",            Null) >>

Objects == DOMAIN Profiles

\* further specifiers, which only the encoders are given (ClassifySpec,
\* LegacyClassifySpec): the
\* collections, the specifiers with one of 'whose' and 'at', and the ways the
\* class query of a single element ends
Shapes == <<
    Shape("specifier", "item",        TRUE,  TRUE,  TRUE,  "ok",    "folder", Str("Finder")),
    Shape("specifier", "item",        TRUE,  TRUE,  TRUE,  "-1700", "",       Str("Finder")),
    Shape("specifier", "item",        TRUE,  TRUE,  TRUE,  "error", "",       Null),
    Shape("specifier", "file",        TRUE,  TRUE,  FALSE, "ok",    "",       Str("Finder")),
    Shape("specifier", "application", TRUE,  TRUE,  TRUE,  "ok",    "application", Str("Finder")),
    Shape("specifier", "item",        TRUE,  FALSE, TRUE,  "ok",    "folder", Str("Finder")),
    Shape("specifier", "item",        FALSE, TRUE,  TRUE,  "-1700", "",       Str("Finder")),
    Shape("specifier", "item",        FALSE, FALSE, TRUE,  "-1700", "",       Str("Finder")),
    Shape("specifier", "item",        FALSE, FALSE, TRUE,  "error", "",       Str("Finder")),
    Shape("specifier", "item",        FALSE, FALSE, FALSE, "ok",    "",       Null),
    Shape("specifier", "item",        FALSE, FALSE, TRUE,  "ok",    "document", Str("Finder")) >>

AllObjects == DOMAIN (Profiles \o Shapes)

Profile(o) == (Profiles \o Shapes)[o]

\* the JavaScript value that is host object o
HostValue(o) == IF Profile(o).kind = "function" THEN Function(o) ELSE Specifier(o)

HostValues == {HostValue(o) : o \in Objects}

Specifiers == {Specifier(o) : o \in {a \in AllObjects : Profile(a).kind = "specifier"}}

IdValues == {Num(i) : i \in Ids}

\* what a call into the host gives when the host raises instead of returning
HostRaises == Val("raise", 0, "", <<>>, <<>>)

\* what the host gives for obj(), per object of Profiles and Shapes, or HostRaises
Evaluations == <<
    Null,
    Obj(<<"name">>, <<Str("Documents")>>),
    Undef,
    Arr(<<Str("a")>>), Arr(<<>>), Arr(<<>>), Arr(<<>>), Null,
    HostRaises,
    Str("Documents"),
    DateV(1000),
    HostRaises,
    Arr(<<Num(7)>>),
    HostValue(3) >>

\* obj()
Evaluate(obj) == Evaluations[obj.n]

(***************************************************************************)
(* ObjectPoolManager.  A pool is the record of its three fields.  Both     *)
(* maps are keyed by JavaScript values: _objectIdMap by the object,        *)
(* _idObjectMap by the number.                                             *)
(***************************************************************************)
Pool(c, om, im) == [currentId |-> c, objectIdMap |-> om, idObjectMap |-> im]

NewPool == Pool(0, EmptyMap, EmptyMap)

ThePool == Pool(_currentId, _objectIdMap, _idObjectMap)

\* getObject(id): Map.get never throws, so the catch branch is dead
getObject(P, id) == MapGet(P.idObjectMap, id)

\* getId with the lowest free id handed out again instead of the next counter value
getId_Recycling(P, obj) ==
    LET free == CHOOSE i \in 1 .. (P.currentId + 1) :
                    /\ ~MapHas(P.idObjectMap, Num(i))
                    /\ \A j \in 1 .. (i - 1) : MapHas(P.idObjectMap, Num(j))
        Q == IF ~MapHas(P.objectIdMap, obj)
             THEN Pool(free, MapSet(P.objectIdMap, obj, free),
                       MapSet(P.idObjectMap, Num(free), obj))
             ELSE P
    IN  [pool |-> Q, ret |-> Q.currentId]

\* getId with the increment of the counter left out
getId_NoIncrement(P, obj) ==
    LET Q == IF ~MapHas(P.objectIdMap, obj)
             THEN Pool(P.currentId,
                       MapSet(P.objectIdMap, obj, P.currentId),
                       MapSet(P.idObjectMap, Num(P.currentId), obj))
             ELSE P
    IN  [pool |-> Q, ret |-> Q.currentId]

\* getId(obj): the pool after the call and the number returned
getId(P, obj) ==
    LET Q == IF ~MapHas(P.objectIdMap, obj)
             THEN Pool(P.currentId + 1,
                       MapSet(P.objectIdMap, obj, P.currentId + 1),
                       MapSet(P.idObjectMap, Num(P.currentId + 1), obj))
             ELSE P
    IN  [pool |-> Q, ret |-> Q.currentId]

\* releaseObjectWithId with the object -> id direction left behind
releaseObjectWithId_OneDirection(P, objectId) ==
    [pool  |-> Pool(P.currentId, P.objectIdMap, MapDelete(P.idObjectMap, objectId)),
     threw |-> FALSE]

\* releaseObjectWithId that raises for an id the pool does not hold
releaseObjectWithId_Strict(P, objectId) ==
    [pool  |-> Pool(P.currentId,
                    MapDelete(P.objectIdMap, getObject(P, objectId)),
                    MapDelete(P.idObjectMap, objectId)),
     threw |-> ~MapHas(P.idObjectMap, objectId)]

\* releaseObjectWithId(objectId): the pool after the call; the method has no
\* statement that can throw
releaseObjectWithId(P, objectId) ==
    LET obj == getObject(P, objectId)
    IN  [pool  |-> Pool(P.currentId,
                        MapDelete(P.objectIdMap, obj),
                        MapDelete(P.idObjectMap, objectId)),
         threw |-> FALSE]

(***************************************************************************)
(* Util.                                                                   *)
(***************************************************************************)
\* ObjectSpecifier.hasInstance(obj)
hasInstance(obj) == obj.k = "specifier"

\* Util.getAssociatedApplicationName(obj): the name in the display string, or null
getAssociatedApplicationName(obj) == Profile(obj.n).app

\* Util.guessIsSpecifierContainer(specifier): 'whose' and 'at' are both in the prototype
guessIsSpecifierContainer(specifier) ==
    IF ~hasInstance(specifier) THEN FALSE
    ELSE Profile(specifier.n).whose /\ Profile(specifier.n).at

\* guessClassOfSpecifier with the class query made before the test for a container
guessClassOfSpecifier_ClassFirst(specifier) ==
    IF ~hasInstance(specifier) THEN Undef
    ELSE LET h == Profile(specifier.n) IN
         IF h.classOf = "application" THEN Str("application")
         ELSE IF h.hasClass /\ h.classQuery = "ok" THEN Str(h.class)
         ELSE IF guessIsSpecifierContainer(specifier) THEN Str("array::" \o h.classOf)
         ELSE IF h.hasClass /\ h.classQuery = "-1700" THEN Str(h.classOf)
         ELSE IF h.hasClass THEN Undef
         ELSE Str(h.classOf)

\* guessClassOfSpecifier with error -1700 treated like any other error
guessClassOfSpecifier_NoFallback(specifier) ==
    IF ~hasInstance(specifier) THEN Undef
    ELSE LET h == Profile(specifier.n) IN
         IF h.classOf = "application" THEN Str("application")
         ELSE IF guessIsSpecifierContainer(specifier) THEN Str("array::" \o h.classOf)
         ELSE IF h.hasClass
              THEN IF h.classQuery = "ok" THEN Str(h.class) ELSE Undef
              ELSE Str(h.classOf)

\* Util.guessClassOfSpecifier(specifier): a string or undefined
guessClassOfSpecifier(specifier) ==
    IF ~hasInstance(specifier) THEN Undef
    ELSE LET h == Profile(specifier.n) IN
         IF h.classOf = "application" THEN Str("application")
         ELSE IF guessIsSpecifierContainer(specifier) THEN Str("array::" \o h.classOf)
         ELSE IF h.hasClass
              THEN CASE h.classQuery = "ok"    -> Str(h.class)
                     [] h.classQuery = "-1700" -> Str(h.classOf)
                     [] OTHER                  -> Undef
              ELSE Str(h.classOf)

\* guessClass.startsWith('array::'), over the class names the host has
startsWithArray(str) ==
    \E o \in AllObjects : str \in {"array::" \o Profile(o).classOf, "array::" \o Profile(o).class}

\* Util.isJsonNode(obj)
isJsonNode(obj) == obj.k \in {"null", "undefined", "string", "number", "boolean"}

(***************************************************************************)
(* Numbers that are not whole are kept in thousandths: Milli(x) is x/1000. *)
(***************************************************************************)
Milli(x) == Val("number", x, "/1000", <<>>, <<>>)

\* the milliseconds passed on as they are
DivideBy1000_NoScale(ms) == Num(ms)

\* obj.getTime() / 1000
DivideBy1000(ms) == IF ms % 1000 = 0 THEN Num(ms \div 1000) ELSE Milli(ms)

\* new Date(data * 1000) for a whole number of seconds or null; any other
\* operand gives a Date the model does not tell apart further
DateOfSeconds(data) ==
    CASE data.k = "number" /\ data.s = "" -> DateV(data.n * 1000)
      [] data.k = "null"                  -> DateV(0)
      [] OTHER                            -> Val("date", 0, "other", <<>>, <<>>)

(***************************************************************************)
(* JsonTranslator.wrapToJson.  The result records the pool after the call  *)
(* (getId calls made before a throw stay made), whether the call threw,    *)
(* the node returned, and the specifiers the call evaluated (obj()).       *)
(***************************************************************************)
Returned(P, v) == [pool |-> P, threw |-> FALSE, value |-> v, evaluated |-> {}]

Thrown(P) == [pool |-> P, threw |-> TRUE, value |-> Undef, evaluated |-> {}]

\* the object literal of a reference node of a specifier; the literal of line
\* 244 lists className before app
ReferenceNode(P, obj, className) ==
    Bind(getId(P, obj), LAMBDA r :
    Returned(r.pool,
             IF className = "unknown" \/ className = "application" \/ startsWithArray(className)
             THEN Obj(<<"type", "objId", "app", "className">>,
                      <<Str("reference"), Num(r.ret), getAssociatedApplicationName(obj),
                        Str(className)>>)
             ELSE Obj(<<"type", "objId", "className", "app">>,
                      <<Str("reference"), Num(r.ret), Str(className),
                        getAssociatedApplicationName(obj)>>)))

\* obj.constructor.name === 'Object', for an object that is no Date and no array:
\* an own key 'constructor' shadows the inherited Object (and a value under it
\* that has no property 'name' at all makes the test raise, which fails alike)
constructorNameIsObject(obj) ==
    /\ obj.k = "object"
    /\ (\E i \in DOMAIN obj.keys : obj.keys[i] = "constructor")
           => Get(Get(obj, "constructor"), "name") = Str("Object")

\* the node for a specifier whose class is not known, as the lines that are
\* commented out made it: the specifier is called, and a primitive or a Date it
\* gives is encoded in its place
unknownClassNode_Evaluating(P, obj) ==
    Bind(Evaluate(obj), LAMBDA evaluated :
    IF evaluated # HostRaises /\ isJsonNode(evaluated)
    THEN [Returned(P, Obj(<<"type", "data">>, <<Str("plain"), evaluated>>))
              EXCEPT !.evaluated = {obj}]
    ELSE IF evaluated.k = "date"
    THEN [Returned(P, Obj(<<"type", "data">>, <<Str("date"), DivideBy1000(evaluated.n)>>))
              EXCEPT !.evaluated = {obj}]
    ELSE [ReferenceNode(P, obj, "unknown") EXCEPT !.evaluated = {obj}])

\* the node for a specifier whose class is not known (lines 183-189)
unknownClassNode(P, obj) == ReferenceNode(P, obj, "unknown")

RECURSIVE wrapToJson(_, _), wrapEach(_, _)

\* the loops of lines 261-263 and 271-273: the elements in order, the pool threaded
\* through, stopping at the first element that throws
wrapEach(P, items) ==
    IF items = <<>> THEN [pool |-> P, threw |-> FALSE, items |-> <<>>, evaluated |-> {}]
    ELSE Bind(wrapToJson(P, Head(items)), LAMBDA h :
         IF h.threw
         THEN [pool |-> h.pool, threw |-> TRUE, items |-> <<>>, evaluated |-> h.evaluated]
         ELSE Bind(wrapEach(h.pool, Tail(items)), LAMBDA t :
              [pool |-> t.pool, threw |-> t.threw, items |-> <<h.value>> \o t.items,
               evaluated |-> h.evaluated \cup t.evaluated]))

wrapToJson(P, obj0) ==
    LET obj == IF obj0 = Undef THEN Null ELSE obj0 IN
    IF isJsonNode(obj)
    THEN Returned(P, Obj(<<"type", "data">>, <<Str("plain"), obj>>))
    ELSE IF hasInstance(obj)
    THEN Bind(guessClassOfSpecifier(obj), LAMBDA guessClass :
         IF guessClass = Undef THEN unknownClassNode(P, obj)
         ELSE ReferenceNode(P, obj, guessClass.s))
    ELSE IF obj.k \in {"date", "array", "object", "exotic"}      \* typeof obj === 'object'
    THEN IF obj.k = "date"
         THEN Returned(P, Obj(<<"type", "data">>, <<Str("date"), DivideBy1000(obj.n)>>))
         ELSE IF obj.k = "array"
         THEN Bind(wrapEach(P, obj.items), LAMBDA d :
              [pool |-> d.pool, threw |-> d.threw, evaluated |-> d.evaluated,
               value |-> IF d.threw THEN Undef
                         ELSE Obj(<<"type", "data">>, <<Str("array"), Arr(d.items)>>)])
         ELSE IF constructorNameIsObject(obj)
         THEN Bind(wrapEach(P, obj.items), LAMBDA d :
              [pool |-> d.pool, threw |-> d.threw, evaluated |-> d.evaluated,
               value |-> IF d.threw THEN Undef
                         ELSE Obj(<<"type", "data">>, <<Str("dict"), Obj(obj.keys, d.items)>>)])
         ELSE Thrown(P)
    ELSE IF obj.k = "function"
    THEN Bind(getId(P, obj), LAMBDA r :
         Returned(r.pool, Obj(<<"type", "objId", "className">>,
                              <<Str("reference"), Num(r.ret), Str("function")>>)))
    ELSE Thrown(P)

(***************************************************************************)
(* JsonTranslator.unwrapFromJson.  The loop of lines 305-307 assigns into  *)
(* the node it is decoding, so the result also records the argument as the *)
(* call left it (which is what the caller still holds when the call        *)
(* throws).                                                                *)
(***************************************************************************)
\* obj with obj[key] = v, for a key the object has
SetKey(obj, key, v) ==
    [obj EXCEPT !.items = [i \in DOMAIN obj.items |->
                              IF obj.keys[i] = key THEN v ELSE obj.items[i]]]

RECURSIVE unwrapFromJson(_, _), unwrapEach(_, _)

unwrapEach(P, items) ==
    IF items = <<>> THEN [threw |-> FALSE, items |-> <<>>]
    ELSE Bind(unwrapFromJson(P, Head(items)), LAMBDA h :
         IF h.threw THEN [threw |-> TRUE, items |-> <<h.obj>> \o Tail(items)]
         ELSE Bind(unwrapEach(P, Tail(items)), LAMBDA t :
              [threw |-> t.threw, items |-> <<h.value>> \o t.items]))

unwrapFromJson(P, obj) ==
    IF obj.k \in {"null", "undefined"}              \* obj.type raises a TypeError
    THEN [threw |-> TRUE, value |-> Undef, obj |-> obj]
    ELSE Bind(Get(obj, "type"), LAMBDA type :
         Bind(Get(obj, "data"), LAMBDA data :
         IF type = Str("plain") THEN [threw |-> FALSE, value |-> data, obj |-> obj]
         ELSE IF type = Str("date")
         THEN [threw |-> FALSE, value |-> DateOfSeconds(data), obj |-> obj]
         ELSE IF type = Str("array") \/ type = Str("dict")
         THEN IF data.k \in {"array", "object"}
              THEN Bind(unwrapEach(P, data.items), LAMBDA d :
                   Bind([data EXCEPT !.items = d.items], LAMBDA newData :
                   [threw |-> d.threw,
                    value |-> IF d.threw THEN Undef ELSE newData,
                    obj   |-> SetKey(obj, "data", newData)]))
              ELSE \* for-in finds nothing to iterate in null, undefined, a number or
                   \* a boolean (no request of the model carries a string here)
                   [threw |-> FALSE, value |-> data, obj |-> obj]
         ELSE IF type = Str("reference")
         THEN [threw |-> FALSE, value |-> getObject(P, Get(obj, "objId")), obj |-> obj]
         ELSE [threw |-> FALSE, value |-> Undef, obj |-> obj]))

(***************************************************************************)
(* JSON text.  A string handed to JSON.parse or produced by JSON.stringify *)
(* is kept as the JSON document it spells.                                 *)
(***************************************************************************)
Json(j, n, s, keys, items) == [j |-> j, n |-> n, s |-> s, keys |-> keys, items |-> items]

JNull         == Json("null", 0, "", <<>>, <<>>)
JNum(x)       == Json("number", x, "", <<>>, <<>>)
JStr(x)       == Json("string", 0, x, <<>>, <<>>)
JArr(items)   == Json("array", 0, "", <<>>, items)
JObj(ks, vs)  == Json("object", 0, "", ks, vs)
NoText        == Json("none", 0, "", <<>>, <<>>)     \* no string at all
InvalidText   == Json("invalid", 0, "", <<>>, <<>>)  \* a string that is no JSON document

\* the elements of seq whose index is in keep, in order
Pick(seq, keep) ==
    LET F[i \in 0 .. Len(seq)] ==
            IF i = 0 THEN <<>>
            ELSE IF i \in keep THEN Append(F[i - 1], seq[i]) ELSE F[i - 1]
    IN  F[Len(seq)]

RECURSIVE Serialize(_)

\* JSON.stringify's SerializeJSONProperty: NoText where the standard yields
\* undefined (undefined, symbols and callables: functions and specifiers)
Serialize(v) ==
    CASE v.k \in {"undefined", "symbol", "function", "specifier"} -> NoText
      [] v.k = "null"   -> JNull
      [] v.k = "number" -> Json("number", v.n, v.s, <<>>, <<>>)
      [] v.k \in {"string", "boolean"} -> Json(v.k, v.n, v.s, <<>>, <<>>)
      [] v.k = "date"   -> Json("string", v.n, "ISO date", <<>>, <<>>)     \* Date.toJSON
      [] v.k = "array"  ->
            JArr([i \in DOMAIN v.items |->
                     Bind(Serialize(v.items[i]), LAMBDA t : IF t = NoText THEN JNull ELSE t)])
      [] OTHER ->                                    \* objects of any class
            Bind([i \in DOMAIN v.items |-> Serialize(v.items[i])], LAMBDA ts :
            Bind({i \in DOMAIN ts : ts[i] # NoText}, LAMBDA keep :
            JObj(Pick(v.keys, keep), Pick(ts, keep))))

\* JSON.stringify(value): a string, or undefined
stringify(v) ==
    Bind(Serialize(v), LAMBDA t :
    IF t = NoText THEN [kind |-> "undefined", text |-> NoText]
    ELSE [kind |-> "string", text |-> t])

RECURSIVE Revive(_)

Revive(t) ==
    CASE t.j = "null"   -> Null
      [] t.j = "array"  -> Arr([i \in DOMAIN t.items |-> Revive(t.items[i])])
      [] t.j = "object" -> Obj(t.keys, [i \in DOMAIN t.items |-> Revive(t.items[i])])
      [] OTHER          -> Val(t.j, t.n, t.s, <<>>, <<>>)

\* JSON.parse(text): a SyntaxError for text that is no JSON document
parse(t) ==
    IF t.j \in {"none", "invalid"} THEN [threw |-> TRUE, value |-> Undef]
    ELSE [threw |-> FALSE, value |-> Revive(t)]

(***************************************************************************)
(* The inner functions.  Each gives the pool after the call, whether the   *)
(* call threw and what it returned.  What the host evaluates a snippet to  *)
(* is the parameter `host`.                                                *)
(***************************************************************************)
_echo(P, ps, host) == Returned(P, ps)

\* function _releaseObjectWithId({id}): destructuring null or undefined raises
_releaseObjectWithId(P, ps, host) ==
    IF ps.k \in {"null", "undefined"} THEN Thrown(P)
    ELSE Bind(releaseObjectWithId(P, Get(ps, "id")), LAMBDA r :
         IF r.threw THEN Thrown(r.pool) ELSE Returned(r.pool, Undef))

\* function _evalJXACodeSnippet({source, locals}): the value of eval(source);
\* eval hands back an argument that is no string
_evalJXACodeSnippet(P, ps, host) ==
    IF ps.k \in {"null", "undefined"} THEN Thrown(P)
    ELSE IF Get(ps, "source").k # "string" THEN Returned(P, Get(ps, "source"))
    ELSE Returned(P, host)

\* obj[name] of an object of the host (a specifier or a function): a string, a
\* number, two methods, and undefined under any other name
HostProperty(obj, name) ==
    CASE name = "name"                  -> Str("Finder")
      [] name = "id"                    -> Num(7)
      [] name \in {"open", "constructor"} -> Val("function", 0, name, <<>>, <<>>)
      [] OTHER                          -> Undef

\* obj[name]: a TypeError for null and undefined
GetMember(obj, name) ==
    IF obj.k \in {"null", "undefined"} THEN [threw |-> TRUE, value |-> Undef]
    ELSE [threw |-> FALSE,
          value |-> IF name.k # "string" THEN Undef
                    ELSE IF obj.k \in {"specifier", "function"} THEN HostProperty(obj, name.s)
                    ELSE Get(obj, name.s)]

\* Util.isMethod(obj): the functions of the model are all made by Function
isMethod(obj) == obj.k = "function"

\* value.bind(obj) giving the same function object at every call for the same
\* value and obj
BoundFunction_Shared(value, obj, serial) == Val("function", 0, value.s, <<>>, <<obj>>)

\* value.bind(obj): a function object that did not exist before.  It is told
\* apart by `serial`, for which the callers pass the pool's counter plus one: a
\* function gets into the pool only through a getId call made after it was
\* bound, which moves the counter past the serial of every function in the pool.
BoundFunction(value, obj, serial) == Val("function", serial, value.s, <<>>, <<obj>>)

\* function _getProperty({obj, name})
_getProperty(P, ps, host) ==
    IF ps.k \in {"null", "undefined"} THEN Thrown(P)
    ELSE Bind(GetMember(Get(ps, "obj"), Get(ps, "name")), LAMBDA m :
         IF m.threw THEN Thrown(P)
         ELSE IF isMethod(m.value)
              THEN Returned(P, BoundFunction(m.value, Get(ps, "obj"), P.currentId + 1))
              ELSE Returned(P, m.value))

\* result[k] = v on an object literal: a new key goes last
PutKey(obj, key, v) ==
    IF \E i \in DOMAIN obj.keys : obj.keys[i] = key
    THEN SetKey(obj, key, v)
    ELSE Obj(Append(obj.keys, key), Append(obj.items, v))

RECURSIVE getEach(_, _, _, _)

\* the loop of lines 426-428 over the names left, result being the object so far
getEach(P, obj, names, res) ==
    IF names = <<>> THEN Returned(P, res)
    ELSE Bind(_getProperty(P, Obj(<<"obj", "name">>, <<obj, Head(names)>>), Undef), LAMBDA r :
         IF r.threw THEN Thrown(P)
         ELSE getEach(P, obj, Tail(names), PutKey(res, Head(names).s, r.value)))

\* function _getProperties({obj, properties}): for-of raises for what is not iterable
_getProperties(P, ps, host) ==
    IF ps.k \in {"null", "undefined"} THEN Thrown(P)
    ELSE IF Get(ps, "properties").k # "array" THEN Thrown(P)
    ELSE getEach(P, Get(ps, "obj"), Get(ps, "properties").items, Obj(<<>>, <<>>))

\* function _callMethod({obj, name, args, kwargs}); `host` is what the call of
\* the method returns, or HostRaises
_callMethod(P, ps, host) ==
    IF ps.k \in {"null", "undefined"} THEN Thrown(P)
    ELSE Bind(GetMember(Get(ps, "obj"), Get(ps, "name")), LAMBDA m :
         Bind(Get(ps, "args"), LAMBDA args :
         IF m.threw THEN Thrown(P)                             \* obj[name] raised
         ELSE IF m.value = Undef THEN Thrown(P)                \* Method not found
         ELSE IF args.k \notin {"null", "undefined", "array"} THEN Thrown(P)  \* ...args
         ELSE IF m.value.k \notin {"function", "specifier"} THEN Thrown(P)   \* not callable
         ELSE IF host = HostRaises THEN Thrown(P)
         ELSE Returned(P, host)))

Apply(name, P, ps, host) ==
    CASE name = "echo"                -> _echo(P, ps, host)
      [] name = "releaseObjectWithId" -> _releaseObjectWithId(P, ps, host)
      [] name = "evalJXACodeSnippet"  -> _evalJXACodeSnippet(P, ps, host)
      [] name = "getProperty"         -> _getProperty(P, ps, host)
      [] name = "getProperties"       -> _getProperties(P, ps, host)
      [] name = "callMethod"          -> _callMethod(P, ps, host)

(***************************************************************************)
(* JsonTranslator.strIOFuncWrapper(func)(strParams), for the function      *)
(* named `name`: everything one request does.                              *)
(***************************************************************************)
Escaped(P, ps, how, msgs) ==
    [pool |-> P, params |-> ps, inner |-> how, result |-> Undef,
     response |-> [kind |-> "exception", text |-> NoText], log |-> msgs]

strIOFuncWrapper(name, P, strParams, host) ==
    Bind(parse(strParams), LAMBDA parsed :
    IF parsed.threw THEN Escaped(P, Undef, "not called", {})
    ELSE
    Bind(unwrapFromJson(P, parsed.value), LAMBDA u :
    Bind(IF u.threw THEN u.obj ELSE u.value, LAMBDA ps :
    Bind(IF u.threw THEN {"Error unwrapping params"} ELSE {}, LAMBDA log1 :
    Bind(Apply(name, P, ps, host), LAMBDA f :
    IF f.threw THEN Escaped(f.pool, ps, "raised", log1)
    ELSE
    Bind(wrapToJson(f.pool, f.value), LAMBDA w :
    [pool     |-> w.pool,
     params   |-> ps,
     inner    |-> "returned",
     result   |-> f.value,
     response |-> stringify(IF w.threw THEN f.value ELSE w.value),
     log      |-> log1 \cup (IF w.threw THEN {"Error wrapping result"} ELSE {})]))))))

(***************************************************************************)
(* Request strings, as a caller builds them.                               *)
(***************************************************************************)
TPlain(d)  == JObj(<<"type", "data">>, <<JStr("plain"), d>>)
TDate(sec) == JObj(<<"type", "data">>, <<JStr("date"), JNum(sec)>>)
TArray(ns) == JObj(<<"type", "data">>, <<JStr("array"), JArr(ns)>>)
TDict(ks, ns) == JObj(<<"type", "data">>, <<JStr("dict"), JObj(ks, ns)>>)
TReference(id) == JObj(<<"type", "objId">>, <<JStr("reference"), JNum(id)>>)

EchoRequests ==
    {TPlain(JNull), TPlain(JNum(42)), TDate(1500), JNull, InvalidText}
        \cup {TReference(i) : i \in Ids}
        \cup {TArray(<<TReference(1), TReference(2)>>)}

ReleaseRequests == {TDict(<<"id">>, <<TPlain(JNum(i))>>) : i \in Ids} \cup {JNull}

EvalRequest == TDict(<<"source", "locals">>, <<TPlain(JStr("source")), TPlain(JNull)>>)

\* sequences over S of length 0 .. n
SeqsUpTo(S, n) == UNION {[1 .. m -> S] : m \in 0 .. n}

AnExotic == Exotic(<<>>, <<>>)       \* an object such as new Map()

\* what a snippet may evaluate to
EvalResults ==
    {Undef, Num(42), DateV(1500000), AnExotic, Symbol}
        \cup HostValues
        \cup {Arr(q) : q \in SeqsUpTo(HostValues, MaxLen)}
        \cup {Arr(<<HostValue(1), AnExotic>>)}
        \cup {Obj(<<"a", "b">>, <<Num(7), HostValue(2)>>)}

(***************************************************************************)
(* The first version of the helper (part_000).  Its state is the counter   *)
(* and the WeakMap in the closure of getObjectId, and the global           *)
(* objectCacheMap.  An entry of the WeakMap lasts as long as its object    *)
(* does, and the objects of the model last: each can be encoded again.     *)
(***************************************************************************)
Legacy(c, im, cm) == [count |-> c, objIdMap |-> im, objectCacheMap |-> cm]

NewLegacy == Legacy(0, EmptyMap, EmptyMap)

TheLegacy == Legacy(count, objIdMap, objectCacheMap)

\* getObjectId(object): the state after the call and the number returned
getObjectId(L, object) ==
    IF ~MapHas(L.objIdMap, object)        \* objectId === undefined
    THEN [state |-> Legacy(L.count + 1, MapSet(L.objIdMap, object, L.count + 1),
                           L.objectCacheMap),
          ret   |-> L.count + 1]
    ELSE [state |-> L, ret |-> L.objIdMap[object]]

\* cacheObjct(obj)
cacheObjct(L, obj) ==
    Bind(getObjectId(L, obj), LAMBDA g :
    [state |-> Legacy(g.state.count, g.state.objIdMap,
                      MapSet(g.state.objectCacheMap, Num(g.ret), obj)),
     ret   |-> g.ret])

\* getCachedObject(id): undefined for an id the cache does not hold
getCachedObject(L, id) == MapGet(L.objectCacheMap, id)

\* _releaseObjectWithId({id}) of the first version: delete objectCacheMap[id]
legacyReleaseObjectWithId(L, id) ==
    Legacy(L.count, L.objIdMap, MapDelete(L.objectCacheMap, id))

\* guessIsContainerSpecifier(specifier)
guessIsContainerSpecifier(specifier) ==
    IF ~hasInstance(specifier) THEN FALSE
    ELSE Profile(specifier.n).whose /\ Profile(specifier.n).at

\* guessClassOfSpecifier(specifier) of the first version.  Calling a class
\* property that is undefined raises a TypeError, which has no errorNumber: like
\* every error of the class query it leaves specifierClass undefined.
legacyGuessClassOfSpecifier(specifier) ==
    IF ~hasInstance(specifier) THEN Undef
    ELSE LET h == Profile(specifier.n) IN
         IF guessIsContainerSpecifier(specifier) THEN Str("array::" \o h.classOf)
         ELSE IF h.hasClass /\ h.classQuery = "ok" THEN Str(h.class)
         ELSE Undef

\* isJsonNodeValue(obj)
isJsonNodeValue(obj) == obj.k \in {"null", "undefined", "string", "number", "boolean"}

\* isPlainObj(obj), as the truth value of what it returns (it returns undefined
\* for a value that is no JSON value, no object and no function)
isPlainObj(obj) ==
    IF isJsonNodeValue(obj) THEN TRUE
    ELSE IF obj.k \in {"date", "array", "object", "exotic"}
    THEN \A i \in DOMAIN obj.items : isJsonNodeValue(obj.items[i])
    ELSE FALSE

LegacyReturned(L, v, ev) == [state |-> L, threw |-> FALSE, value |-> v, evaluated |-> ev]

LegacyThrown(L, ev) == [state |-> L, threw |-> TRUE, value |-> Undef, evaluated |-> ev]

\* the reference node of lines 208-213 and 217-222
PlainReprNullNode(L, obj, className) ==
    Bind(cacheObjct(L, obj), LAMBDA c :
    LegacyReturned(c.state,
                   Obj(<<"type", "objId", "plainRepr", "className">>,
                       <<Str("reference"), Num(c.ret), Null, Str(className)>>),
                   {}))

\* lines 226-236: the specifier is called, then cached
PlainReprNode(L, obj, className) ==
    Bind(Evaluate(obj), LAMBDA evaluated :
    IF evaluated = HostRaises THEN LegacyThrown(L, {obj})
    ELSE Bind(cacheObjct(L, obj), LAMBDA c :
         LegacyReturned(c.state,
                        Obj(<<"type", "objId", "className", "plainRepr">>,
                            <<Str("reference"), Num(c.ret), Str(className),
                              IF isPlainObj(evaluated) THEN evaluated ELSE Null>>),
                        {obj})))

RECURSIVE wrapObjToJson(_, _), wrapObjEach(_, _)

\* the loops of lines 175-177 and 186-188
wrapObjEach(L, items) ==
    IF items = <<>> THEN [state |-> L, threw |-> FALSE, items |-> <<>>, evaluated |-> {}]
    ELSE Bind(wrapObjToJson(L, Head(items)), LAMBDA h :
         IF h.threw
         THEN [state |-> h.state, threw |-> TRUE, items |-> <<>>, evaluated |-> h.evaluated]
         ELSE Bind(wrapObjEach(h.state, Tail(items)), LAMBDA t :
              [state |-> t.state, threw |-> t.threw, items |-> <<h.value>> \o t.items,
               evaluated |-> h.evaluated \cup t.evaluated]))

\* wrapObjToJson(obj): the state after the call, whether the call threw, the node
\* returned and the specifiers the call evaluated
wrapObjToJson(L, obj0) ==
    LET obj == IF obj0 = Undef THEN Null ELSE obj0 IN
    IF isJsonNodeValue(obj)
    THEN LegacyReturned(L, Obj(<<"type", "data">>, <<Str("plain"), obj>>), {})
    ELSE IF obj.k \in {"date", "array", "object", "exotic"}      \* typeof obj === 'object'
    THEN IF obj.k = "date"
         THEN LegacyReturned(L, Obj(<<"type", "data">>, <<Str("date"), DivideBy1000(obj.n)>>), {})
         ELSE IF obj.k = "array"
         THEN Bind(wrapObjEach(L, obj.items), LAMBDA d :
              [state |-> d.state, threw |-> d.threw, evaluated |-> d.evaluated,
               value |-> IF d.threw THEN Undef
                         ELSE Obj(<<"type", "data">>, <<Str("array"), Arr(d.items)>>)])
         ELSE IF constructorNameIsObject(obj)
         THEN Bind(wrapObjEach(L, obj.items), LAMBDA d :
              [state |-> d.state, threw |-> d.threw, evaluated |-> d.evaluated,
               value |-> IF d.threw THEN Undef
                         ELSE Obj(<<"type", "data">>, <<Str("dict"), Obj(obj.keys, d.items)>>)])
         ELSE LegacyThrown(L, {})
    ELSE IF hasInstance(obj)
    THEN Bind(legacyGuessClassOfSpecifier(obj), LAMBDA guessClass :
         IF guessClass = Undef
         THEN Bind(Evaluate(obj), LAMBDA evaluated :
              IF evaluated = HostRaises THEN LegacyThrown(L, {obj})
              ELSE Bind(wrapObjToJson(L, evaluated), LAMBDA w :
                   [w EXCEPT !.evaluated = w.evaluated \cup {obj}]))
         ELSE IF guessClass.s = "application" \/ startsWithArray(guessClass.s)
         THEN PlainReprNullNode(L, obj, guessClass.s)
         ELSE PlainReprNode(L, obj, guessClass.s))
    ELSE IF obj.k = "function"
    THEN Bind(cacheObjct(L, obj), LAMBDA c :
         LegacyReturned(c.state, Obj(<<"type", "objId", "className">>,
                                     <<Str("reference"), Num(c.ret), Str("function")>>), {}))
    ELSE LegacyThrown(L, {})

(***************************************************************************)
(* PoolSpec: the pool's methods called one at a time, with the arguments   *)
(* the translator passes them: getId gets a specifier or a function,       *)
(* getObject and releaseObjectWithId get a number.                         *)
(***************************************************************************)
NoRelease == [id |-> Undef, allocated |-> FALSE, obj |-> Undef]

NoCall == [method |-> "none", arg |-> Undef, ret |-> Undef, threw |-> FALSE]

NotDecoded == [done |-> FALSE, threw |-> FALSE, value |-> Undef]

NoCodec == [obj |-> Undef, threw |-> FALSE, node |-> Undef, evaluated |-> {},
            back |-> NotDecoded]

NoRequest ==
    /\ op = "none"
    /\ request = NoText
    /\ params = Undef
    /\ inner = "not called"
    /\ result = Undef
    /\ response = [kind |-> "none", text |-> NoText]
    /\ log = {}

PoolInit ==
    /\ _currentId = NewPool.currentId
    /\ _objectIdMap = NewPool.objectIdMap
    /\ _idObjectMap = NewPool.idObjectMap
    /\ lastCall = NoCall
    /\ firstId = [o \in HostValues |-> 0]
    /\ allocated = <<>>
    /\ released = NoRelease
    /\ NoRequest
    /\ codec = NoCodec
    /\ count = NewLegacy.count
    /\ objIdMap = NewLegacy.objIdMap
    /\ objectCacheMap = NewLegacy.objectCacheMap

SetPool(P) ==
    /\ _currentId' = P.currentId
    /\ _objectIdMap' = P.objectIdMap
    /\ _idObjectMap' = P.idObjectMap

\* the id a call that took pool P to pool Q put into the maps for obj, if any
NewlyMapped(P, Q, obj) ==
    IF ~MapHas(P.objectIdMap, obj) /\ MapHas(Q.objectIdMap, obj)
    THEN <<Q.objectIdMap[obj]>>
    ELSE <<>>

CallGetId(obj) ==
    LET r == getId(ThePool, obj) IN
    /\ MapHas(_objectIdMap, obj) \/ _currentId < MaxId
    /\ SetPool(r.pool)
    /\ lastCall' = [method |-> "getId", arg |-> obj, ret |-> Num(r.ret), threw |-> FALSE]
    /\ firstId' = IF firstId[obj] = 0 THEN [firstId EXCEPT ![obj] = r.ret] ELSE firstId
    /\ allocated' = allocated \o NewlyMapped(ThePool, r.pool, obj)
    /\ UNCHANGED <<released, reqVars, codec, legacyVars>>

CallGetObject(id) ==
    /\ lastCall' = [method |-> "getObject", arg |-> id, ret |-> getObject(ThePool, id),
                    threw |-> FALSE]
    /\ UNCHANGED <<poolVars, firstId, allocated, released, reqVars, codec, legacyVars>>

CallRelease(id) ==
    LET r == releaseObjectWithId(ThePool, id) IN
    /\ SetPool(r.pool)
    /\ lastCall' = [method |-> "releaseObjectWithId", arg |-> id, ret |-> Undef,
                    threw |-> r.threw]
    /\ firstId' = [o \in HostValues |-> IF Num(firstId[o]) = id THEN 0 ELSE firstId[o]]
    /\ released' \in {released,
                      [id |-> id, allocated |-> id.n \in 1 .. _currentId,
                       obj |-> getObject(ThePool, id)]}
    /\ UNCHANGED <<allocated, reqVars, codec, legacyVars>>

PoolNext ==
    \/ \E obj \in HostValues : CallGetId(obj)
    \/ \E id \in IdValues : CallGetObject(id)
    \/ \E id \in IdValues : CallRelease(id)

PoolSpec == PoolInit /\ [][PoolNext]_vars

(***************************************************************************)
(* Spec: one wrapped operation, from request string to response, per step. *)
(***************************************************************************)
Init ==
    /\ _currentId = NewPool.currentId
    /\ _objectIdMap = NewPool.objectIdMap
    /\ _idObjectMap = NewPool.idObjectMap
    /\ lastCall = NoCall
    /\ firstId = [o \in HostValues |-> 0]
    /\ allocated = <<>>
    /\ released = NoRelease
    /\ NoRequest
    /\ codec = NoCodec
    /\ count = NewLegacy.count
    /\ objIdMap = NewLegacy.objIdMap
    /\ objectCacheMap = NewLegacy.objectCacheMap

\* one request, served if it leaves the counter at max or below
ServeWithin(max, name, strParams, host) ==
    \E r \in {strIOFuncWrapper(name, ThePool, strParams, host)} :
    /\ r.pool.currentId <= max
    /\ SetPool(r.pool)
    /\ request' = strParams
    /\ params' = r.params
    /\ inner' = r.inner
    /\ result' = r.result
    /\ response' = r.response
    /\ log' = r.log
    /\ UNCHANGED <<callVars, codec, legacyVars>>

Serve(name, strParams, host) == ServeWithin(MaxId, name, strParams, host)

echo ==
    \E t \in EchoRequests :
        /\ op' = "echo"
        /\ Serve("echo", t, Undef)

releaseObjectWithIdRequest ==
    \E t \in ReleaseRequests :
        /\ op' = "releaseObjectWithId"
        /\ Serve("releaseObjectWithId", t, Undef)

evalJXACodeSnippet ==
    \E v \in EvalResults :
        /\ op' = "evalJXACodeSnippet"
        /\ Serve("evalJXACodeSnippet", EvalRequest, v)

Next ==
    \/ echo
    \/ releaseObjectWithIdRequest
    \/ evalJXACodeSnippet

Spec == Init /\ [][Next]_vars

(***************************************************************************)
(* HostSpec: the wrapped operations that read a property of a pooled       *)
(* object or call a method of it (getProperty, getProperties, callMethod), *)
(* together with the two requests that fill and empty the pool.            *)
(***************************************************************************)
TString(x) == TPlain(JStr(x))

\* request strings that are no TaggedNode: no JSON at all, a null node, a type
\* tag that is none of the five, no type tag, a null where a field's node belongs
MalformedRequests ==
    {InvalidText, JNull,
     JObj(<<"type", "data">>, <<JStr("object"), JNull>>),
     JObj(<<"data">>, <<JNull>>),
     TDict(<<"obj", "name">>, <<JNull, TString("name")>>)}

GetPropertyRequests ==
    {TDict(<<"obj", "name">>, <<TReference(i), TString(n)>>) :
        i \in Ids, n \in {"name", "open", "missing"}}

PropertyLists ==
    {<<>>, <<"name", "id">>, <<"id", "missing">>, <<"open", "name">>, <<"name", "constructor">>}

GetPropertiesRequests ==
    {TDict(<<"obj", "properties">>,
           <<TReference(i), TArray([k \in DOMAIN names |-> TString(names[k])])>>) :
        i \in Ids, names \in PropertyLists}

CallMethodRequests ==
    {TDict(<<"obj", "name", "args", "kwargs">>,
           <<TReference(i), TString(n), TArray(<<>>), TPlain(JNull)>>) :
        i \in Ids, n \in {"name", "open", "missing"}}

\* what the call of a method gives
CallResults == {Num(42), HostRaises}

evalJXACodeSnippetOfObject ==
    \E v \in HostValues :
        /\ op' = "evalJXACodeSnippet"
        /\ Serve("evalJXACodeSnippet", EvalRequest, v)

getProperty ==
    \E t \in GetPropertyRequests \cup MalformedRequests :
        /\ op' = "getProperty"
        /\ Serve("getProperty", t, Undef)

getProperties ==
    \E t \in GetPropertiesRequests \cup {JNull} :
        /\ op' = "getProperties"
        /\ Serve("getProperties", t, Undef)

callMethod ==
    \E t \in CallMethodRequests \cup {JNull}, v \in CallResults :
        /\ op' = "callMethod"
        /\ Serve("callMethod", t, v)

HostNext ==
    \/ evalJXACodeSnippetOfObject
    \/ releaseObjectWithIdRequest
    \/ getProperty
    \/ getProperties
    \/ callMethod

HostSpec == Init /\ [][HostNext]_vars

(***************************************************************************)
(* MethodSpec: getProperty of a pooled object, for the name of a method    *)
(* and the name of a plain property, with the two requests that fill and   *)
(* empty the pool.  The pool has room for an object and two reads of a     *)
(* method of it.                                                           *)
(***************************************************************************)
ReadRequest(i, n) == TDict(<<"obj", "name">>, <<TReference(i), TString(n)>>)

ReadIds == 1 .. MaxHandles

ReadNames == {"open", "name"}

evalJXACodeSnippetForRead ==
    \E v \in HostValues :
        /\ op' = "evalJXACodeSnippet"
        /\ ServeWithin(MaxHandles, "evalJXACodeSnippet", EvalRequest, v)

getPropertyOfPooled ==
    \E i \in ReadIds, n \in ReadNames :
        /\ op' = "getProperty"
        /\ ServeWithin(MaxHandles, "getProperty", ReadRequest(i, n), Undef)

releaseObjectWithIdOfRead ==
    \E i \in ReadIds :
        /\ op' = "releaseObjectWithId"
        /\ ServeWithin(MaxHandles, "releaseObjectWithId",
                       TDict(<<"id">>, <<TPlain(JNum(i))>>), Undef)

MethodNext ==
    \/ evalJXACodeSnippetForRead
    \/ getPropertyOfPooled
    \/ releaseObjectWithIdOfRead

MethodSpec == Init /\ [][MethodNext]_vars

(***************************************************************************)
(* CodecSpec and ClassifySpec: wrapToJson applied to a value, and          *)
(* unwrapFromJson applied to the node it returned.  CodecSpec gives the    *)
(* encoder data without references (primitives, dates, arrays and          *)
(* dictionaries of them); ClassifySpec gives it the specifiers and the     *)
(* function of the host.                                                   *)
(***************************************************************************)
Primitives == {Null, Bool(TRUE), Num(42), Str("a")}

Seconds == (-MaxSeconds .. MaxSeconds) \cup {1500}

\* dates at whole seconds, and one at a second and a half
Dates == {DateV(1000 * N) : N \in Seconds} \cup {DateV(1500)}

KeyLists == {<<>>, <<"a">>, <<"a", "b">>, <<"b", "a">>, <<"constructor">>}

Nested ==
    {Arr(<<Arr(<<Num(42)>>), Obj(<<"a">>, <<Arr(<<>>)>>)>>),
     Obj(<<"a", "b">>, <<Arr(<<Str("a"), Null>>), Obj(<<"b">>, <<Bool(TRUE)>>)>>)}

PlainData ==
    Primitives
        \cup {Arr(q) : q \in SeqsUpTo(Primitives, MaxLen)}
        \cup UNION {{Obj(ks, vs) : vs \in [DOMAIN ks -> {Null, Num(42)}]} : ks \in KeyLists}
        \cup Nested

CallWrapToJson(obj) ==
    \E r \in {wrapToJson(ThePool, obj)} :
        /\ r.pool.currentId <= MaxId
        /\ SetPool(r.pool)
        /\ codec' = [obj |-> obj, threw |-> r.threw, node |-> r.value,
                     evaluated |-> r.evaluated, back |-> NotDecoded]
        /\ UNCHANGED <<callVars, reqVars, legacyVars>>

CallUnwrapFromJson ==
    /\ codec.obj # Undef
    /\ ~codec.threw
    /\ ~codec.back.done
    /\ \E u \in {unwrapFromJson(ThePool, codec.node)} :
           codec' = [codec EXCEPT !.back = [done |-> TRUE, threw |-> u.threw, value |-> u.value]]
    /\ UNCHANGED <<poolVars, callVars, reqVars, legacyVars>>

CodecNext ==
    \/ \E obj \in PlainData \cup Dates \cup {Undef} : CallWrapToJson(obj)
    \/ CallUnwrapFromJson

CodecSpec == Init /\ [][CodecNext]_vars

ClassifyNext ==
    \/ \E obj \in Specifiers \cup HostValues : CallWrapToJson(obj)
    \/ CallUnwrapFromJson

ClassifySpec == Init /\ [][ClassifyNext]_vars

(***************************************************************************)
(* LegacySpec: the first version's encoder, cache lookup and release,      *)
(* called one at a time.  The encoder gets the objects of the host; the    *)
(* other two get a number.  LegacyClassifySpec: the encoder alone, given   *)
(* every specifier.                                                        *)
(***************************************************************************)
SetLegacy(L) ==
    /\ count' = L.count
    /\ objIdMap' = L.objIdMap
    /\ objectCacheMap' = L.objectCacheMap

CallWrapObjToJson(obj) ==
    \E r \in {wrapObjToJson(TheLegacy, obj)} :
        /\ r.state.count <= MaxId
        /\ SetLegacy(r.state)
        /\ codec' = [obj |-> obj, threw |-> r.threw, node |-> r.value,
                     evaluated |-> r.evaluated, back |-> NotDecoded]
        /\ UNCHANGED <<poolVars, callVars, reqVars>>

CallGetCachedObject(id) ==
    /\ lastCall' = [method |-> "getCachedObject", arg |-> id,
                    ret |-> getCachedObject(TheLegacy, id), threw |-> FALSE]
    /\ UNCHANGED <<poolVars, firstId, allocated, released, reqVars, codec, legacyVars>>

CallLegacyRelease(id) ==
    /\ SetLegacy(legacyReleaseObjectWithId(TheLegacy, id))
    /\ lastCall' = [method |-> "_releaseObjectWithId", arg |-> id, ret |-> Undef,
                    threw |-> FALSE]
    /\ released' \in {released,
                      [id |-> id, allocated |-> MapHas(objectCacheMap, id),
                       obj |-> getCachedObject(TheLegacy, id)]}
    /\ UNCHANGED <<poolVars, firstId, allocated, reqVars, codec>>

LegacyNext ==
    \/ \E obj \in HostValues : CallWrapObjToJson(obj)
    \/ \E id \in IdValues : CallGetCachedObject(id)
    \/ \E id \in IdValues : CallLegacyRelease(id)

LegacySpec == Init /\ [][LegacyNext]_vars

LegacyClassifyNext == \E obj \in Specifiers \cup HostValues : CallWrapObjToJson(obj)

LegacyClassifySpec == Init /\ [][LegacyClassifyNext]_vars

(***************************************************************************)
(* Properties of the pool (PoolSpec).                                      *)
(***************************************************************************)

\* C1: every getId(o) returns the id the first getId(o) returned, as long as
\* that handle has not been released.
C1_HandleStability ==
    lastCall.method = "getId" => lastCall.ret = Num(firstId[lastCall.arg])

\* C2: for two distinct objects that are both live in the pool, getId returns
\* different ids.
C2_NoHandleCollision ==
    \A o1, o2 \in DOMAIN _objectIdMap :
        o1 # o2 => getId(ThePool, o1).ret # getId(getId(ThePool, o1).pool, o2).ret

\* C4: the object -> id map and the id -> object map are mutual inverses:
\* o maps to i exactly when i maps to o, and the two maps have the same size.
C4_MutualInverses ==
    /\ \A o \in DOMAIN _objectIdMap :
           /\ MapHas(_idObjectMap, Num(_objectIdMap[o]))
           /\ _idObjectMap[Num(_objectIdMap[o])] = o
    /\ \A i \in DOMAIN _idObjectMap :
           /\ MapHas(_objectIdMap, _idObjectMap[i])
           /\ Num(_objectIdMap[_idObjectMap[i]]) = i
    /\ Cardinality(DOMAIN _objectIdMap) = Cardinality(DOMAIN _idObjectMap)

\* a release of an id that was not in the pool has been made while the pool
\* held some other handle, after some live handle had been released
C4_Witness ==
    /\ lastCall.method = "releaseObjectWithId"
    /\ released.obj # Undef
    /\ _idObjectMap # EmptyMap
    /\ lastCall.arg.n > _currentId

\* C5 as stated: once an id has been passed to releaseObjectWithId, getObject
\* finds no object under it, at any later time.
C5_ReleaseInvalidates ==
    released.id # Undef => getObject(ThePool, released.id) = Undef

\* C5 amended: once an id that had been allocated (1 <= id <= _currentId at the
\* time of the call) has been passed to releaseObjectWithId, getObject finds no
\* object under it, at any later time.
C5_ReleaseInvalidatesAllocated ==
    released.allocated => getObject(ThePool, released.id) = Undef

\* a live handle was released and a later getId allocated a new id
C5_Witness ==
    /\ released.allocated
    /\ released.obj # Undef
    /\ lastCall.method = "getId"
    /\ lastCall.ret.n > released.id.n
    /\ _currentId = lastCall.ret.n

\* C6: the counter never decreases, the k-th allocation gets id k (so no id is
\* allocated twice and each new id exceeds every earlier one), also when the
\* object had a handle before that was released.
C6_NoIdRecycling ==
    /\ [](\A k \in DOMAIN allocated : allocated[k] = k)
    /\ [][_currentId' >= _currentId]_vars

\* an object whose handle was released holds a handle again
C6_Witness ==
    /\ released.obj # Undef
    /\ MapHas(_objectIdMap, released.obj)
    /\ Len(allocated) > released.id.n

\* C7: releaseObjectWithId raises nothing; for an id the pool does not hold it
\* leaves the counter and both maps as they were; for a live id it removes that
\* id's pair and nothing else.
C7_IdempotentRelease ==
    [][lastCall'.method = "releaseObjectWithId" =>
          LET id == lastCall'.arg IN
          /\ ~lastCall'.threw
          /\ _currentId' = _currentId
          /\ IF ~MapHas(_idObjectMap, id)
             THEN _objectIdMap' = _objectIdMap /\ _idObjectMap' = _idObjectMap
             ELSE /\ DOMAIN _idObjectMap' = DOMAIN _idObjectMap \ {id}
                  /\ \A j \in DOMAIN _idObjectMap' : _idObjectMap'[j] = _idObjectMap[j]
                  /\ DOMAIN _objectIdMap' = DOMAIN _objectIdMap \ {_idObjectMap[id]}
                  /\ \A o \in DOMAIN _objectIdMap' : _objectIdMap'[o] = _objectIdMap[o]
    ]_vars

\* an id released before is released again while another handle is live
C7_Witness ==
    /\ lastCall.method = "releaseObjectWithId"
    /\ released.obj # Undef
    /\ lastCall.arg = released.id
    /\ _idObjectMap # EmptyMap

(***************************************************************************)
(* Properties of the wrapped operations (Spec).                            *)
(***************************************************************************)
IsObjectList(v) == v.k = "array" /\ \A i \in DOMAIN v.items : v.items[i] \in HostValues

\* C3: a list of host objects that was encoded into a response decodes, with no
\* release in between, to the list of the same objects in the same order.
C3_ReferenceRoundTrip ==
    (op = "evalJXACodeSnippet" /\ IsObjectList(result) /\ response.kind = "string")
        => unwrapFromJson(ThePool, parse(response.text).value).value = result

\* C8: a handle in the pool resolves to the same object after any request that
\* is not a release of that very id.
C8_LiveUntilReleased ==
    [][\A i \in DOMAIN _idObjectMap :
          \/ op' = "releaseObjectWithId" /\ Get(params', "id") = i
          \/ getObject(ThePool', i) = _idObjectMap[i]
    ]_vars

\* an encode has just failed, some handle was released earlier and another one
\* is still in the pool
C8_Witness ==
    /\ op = "evalJXACodeSnippet"
    /\ "Error wrapping result" \in log
    /\ _idObjectMap # EmptyMap
    /\ \E i \in 1 .. _currentId : ~MapHas(_idObjectMap, Num(i))

\* C9: echo of a reference whose objId is not in the pool does not answer what
\* echo of a plain null answers.
C9_StaleHandleNotMasked ==
    \A i \in Ids :
        (op = "echo" /\ request = TReference(i) /\ ~MapHas(_idObjectMap, Num(i)))
            => response # strIOFuncWrapper("echo", ThePool, TPlain(JNull), Undef).response

\* C10: when wrapToJson cannot classify the result, or a value nested in it, the
\* wrapped operation does not return a string.
C10_ClassificationFailureFails ==
    "Error wrapping result" \in log => response.kind # "string"

(***************************************************************************)
(* Properties of the wrapper's error handling and call order (HostSpec).   *)
(***************************************************************************)
RECURSIVE ValidTaggedNode(_)

\* v is a TaggedNode of the wire format, all the way down
ValidTaggedNode(v) ==
    /\ v.k = "object"
    /\ LET type == Get(v, "type")
           data == Get(v, "data")
       IN  CASE type = Str("plain")     -> isJsonNode(data) /\ data # Undef
             [] type = Str("date")      -> data.k = "number"
             [] type = Str("array")     ->
                    data.k = "array" /\ \A i \in DOMAIN data.items : ValidTaggedNode(data.items[i])
             [] type = Str("dict")      ->
                    data.k = "object" /\ \A i \in DOMAIN data.items : ValidTaggedNode(data.items[i])
             [] type = Str("reference") -> Get(v, "objId").k = "number"
             [] OTHER                   -> FALSE

Malformed(t) == parse(t).threw \/ ~ValidTaggedNode(parse(t).value)

\* C11: for a request string that is no valid JSON, or that parses to something
\* that is no valid TaggedNode, the inner function is never called.
C11_MalformedWireRejected ==
    (op # "none" /\ Malformed(request)) => inner = "not called"

\* C12: when the inner function raises, the wrapped function still returns a
\* response string; the exception does not leave the wrapper.
C12_HostFailureRecovered ==
    inner = "raised" => response.kind = "string"

\* C13: when unwrapFromJson raises while decoding the parsed request, the
\* wrapped function still returns a response string and no exception leaves it.
C13_DecodeFailureDoesNotCrash ==
    "Error unwrapping params" \in log => response.kind = "string"

\* C14: the inner function is called only with the fully decoded parameter tree
\* of the request, and a response string is only made of a result that was
\* fully encoded.
C14_CallOrder ==
    [][/\ inner' # "not called" =>
              \E u \in {unwrapFromJson(ThePool, parse(request').value)} :
                  ~u.threw /\ params' = u.value
       /\ response'.kind = "string" => "Error wrapping result" \notin log'
    ]_vars

\* the node of the wire format for the value of a property: a plain node for a
\* primitive, a plain null for a missing property, a reference node otherwise
IsNodeOf(node, value) ==
    IF isJsonNode(value)
    THEN node = Obj(<<"type", "data">>, <<Str("plain"), IF value = Undef THEN Null ELSE value>>)
    ELSE Get(node, "type") = Str("reference")

\* the response is a dict node with exactly the requested names as keys, each
\* with the node of that property of the object
IsDictOfProperties(text, obj, names) ==
    LET node == parse(text).value
        data == Get(node, "data")
    IN  /\ Get(node, "type") = Str("dict")
        /\ data.k = "object"
        /\ {data.keys[i] : i \in DOMAIN data.keys} = {names[i].s : i \in DOMAIN names}
        /\ \A i \in DOMAIN names :
               IsNodeOf(Get(data, names[i].s), GetMember(obj, names[i]).value)

\* C20: getProperties(obj, names) on an object that is in the pool returns a
\* dict node whose keys are exactly the requested names, each with the encoding
\* of obj's value for it (a plain node for a primitive, a plain null for a
\* missing property).
C20_GetPropertiesShape ==
    (/\ op = "getProperties"
     /\ Get(params, "obj").k \in {"specifier", "function"}
     /\ Get(params, "properties").k = "array")
        => /\ response.kind = "string"
           /\ IsDictOfProperties(response.text, Get(params, "obj"),
                                 Get(params, "properties").items)

\* C20 for lists of names without 'constructor'
GetPropertiesShapeOtherwise ==
    (/\ op = "getProperties"
     /\ Get(params, "obj").k \in {"specifier", "function"}
     /\ Get(params, "properties").k = "array"
     /\ \A i \in DOMAIN Get(params, "properties").items :
            Get(params, "properties").items[i] # Str("constructor"))
        => /\ response.kind = "string"
           /\ IsDictOfProperties(response.text, Get(params, "obj"),
                                 Get(params, "properties").items)

(***************************************************************************)
(* Properties of the encoder and the decoder (ClassifySpec, CodecSpec).    *)
(***************************************************************************)
\* what the host says about the specifier last encoded
Encoded == Profile(codec.obj.n)

\* C15: wrapToJson evaluates no specifier; a specifier whose class cannot be
\* determined (its class query raises an error other than -1700) is encoded as a
\* reference node with className 'unknown' whose objId is the handle of that
\* specifier, newly assigned or the one it had.
C15_NoImplicitDereference ==
    codec.obj \in Specifiers =>
        /\ codec.evaluated = {}
        /\ (/\ Encoded.classOf # "application"
            /\ ~(Encoded.whose /\ Encoded.at)
            /\ Encoded.hasClass
            /\ Encoded.classQuery = "error")
               => /\ ~codec.threw
                  /\ Get(codec.node, "type") = Str("reference")
                  /\ Get(codec.node, "className") = Str("unknown")
                  /\ getObject(ThePool, Get(codec.node, "objId")) = codec.obj

\* the part of C15 that does not depend on the number getId returns: no
\* specifier is evaluated, and one of unknown class becomes a reference node
\* with className 'unknown'
NoEvaluationInEncode ==
    codec.obj \in Specifiers =>
        /\ codec.evaluated = {}
        /\ guessClassOfSpecifier(codec.obj) = Undef
               => /\ ~codec.threw
                  /\ Get(codec.node, "type") = Str("reference")
                  /\ Get(codec.node, "className") = Str("unknown")
                  /\ Get(codec.node, "objId").k = "number"

\* C16: a specifier that is no application and has both 'whose' and 'at' in its
\* prototype is classified 'array::' + its nominal class, whatever its own class
\* query would give; a specifier lacking one of the two is never classified
\* 'array::...'.
C16_ContainerClassification ==
    codec.obj \in Specifiers =>
        /\ (Encoded.classOf # "application" /\ Encoded.whose /\ Encoded.at)
               => /\ guessClassOfSpecifier(codec.obj) = Str("array::" \o Encoded.classOf)
                  /\ ~codec.threw
                  /\ Get(codec.node, "className") = Str("array::" \o Encoded.classOf)
        /\ ~(Encoded.whose /\ Encoded.at)
               => /\ ~startsWithArray(guessClassOfSpecifier(codec.obj).s)
                  /\ ~startsWithArray(Get(codec.node, "className").s)

\* a collection whose class query would raise has been encoded, and so has
\* (before it, still in the pool) a specifier with 'whose' but without 'at'
C16_Witness ==
    /\ codec.obj \in Specifiers
    /\ Encoded.whose /\ Encoded.at /\ Encoded.hasClass /\ Encoded.classQuery = "error"
    /\ Get(codec.node, "className") = Str("array::item")
    /\ \E s \in DOMAIN _objectIdMap :
           s \in Specifiers /\ Profile(s.n).whose /\ ~Profile(s.n).at

\* the className of C17 as stated: the first match of application, container,
\* class query succeeded, class query raised -1700, and 'unknown' otherwise
ClassNameAsStated(h) ==
    IF h.classOf = "application" THEN "application"
    ELSE IF h.whose /\ h.at THEN "array::" \o h.classOf
    ELSE IF h.hasClass /\ h.classQuery = "ok" THEN h.class
    ELSE IF h.hasClass /\ h.classQuery = "-1700" THEN h.classOf
    ELSE "unknown"

\* the same with the specifier that has no class property: its nominal class
ClassNameAmended(h) ==
    IF h.classOf = "application" THEN "application"
    ELSE IF h.whose /\ h.at THEN "array::" \o h.classOf
    ELSE IF ~h.hasClass THEN h.classOf
    ELSE IF h.classQuery = "ok" THEN h.class
    ELSE IF h.classQuery = "-1700" THEN h.classOf
    ELSE "unknown"

\* C17 as stated: every specifier is encoded as a reference node, whatever its
\* class query does, with the className of the first match of: application;
\* container; class query succeeds; class query raises -1700; otherwise 'unknown'.
C17_ClassNameOrder ==
    codec.obj \in Specifiers =>
        /\ ~codec.threw
        /\ Get(codec.node, "type") = Str("reference")
        /\ Get(codec.node, "className") = Str(ClassNameAsStated(Encoded))

\* C17 amended: as stated, except that a specifier without a class property
\* gets its nominal class; 'unknown' is left for a class query that raises an
\* error other than -1700.
C17_ClassNameOrderAmended ==
    codec.obj \in Specifiers =>
        /\ ~codec.threw
        /\ Get(codec.node, "type") = Str("reference")
        /\ Get(codec.node, "className") = Str(ClassNameAmended(Encoded))

\* the pool holds a specifier encoded by its nominal class after error -1700
\* and the one last encoded has no class property
C17_Witness ==
    /\ codec.obj \in Specifiers
    /\ ~(Encoded.whose /\ Encoded.at) /\ ~Encoded.hasClass
    /\ Get(codec.node, "className") = Str(Encoded.classOf)
    /\ \E s \in DOMAIN _objectIdMap :
           /\ s \in Specifiers
           /\ ~Profile(s.n).whose /\ ~Profile(s.n).at
           /\ Profile(s.n).hasClass /\ Profile(s.n).classQuery = "-1700"

RECURSIVE IsPlainData(_), KeepsShape(_, _)

\* v is built from JSON primitives, arrays and plain dictionaries
IsPlainData(v) ==
    \/ v.k \in {"null", "boolean", "string"}
    \/ v.k = "number" /\ v.s = ""
    \/ v.k \in {"array", "object"} /\ \A i \in DOMAIN v.items : IsPlainData(v.items[i])

\* node is the node of v, kind by kind: arrays keep their length and order,
\* dictionaries their keys
KeepsShape(v, node) ==
    CASE v.k = "array" ->
            /\ Get(node, "type") = Str("array")
            /\ Get(node, "data").k = "array"
            /\ Len(Get(node, "data").items) = Len(v.items)
            /\ \A i \in DOMAIN v.items : KeepsShape(v.items[i], Get(node, "data").items[i])
      [] v.k = "object" ->
            /\ Get(node, "type") = Str("dict")
            /\ Get(node, "data").k = "object"
            /\ Get(node, "data").keys = v.keys
            /\ \A i \in DOMAIN v.items : KeepsShape(v.items[i], Get(node, "data").items[i])
      [] OTHER -> node = Obj(<<"type", "data">>, <<Str("plain"), v>>)

\* C18: a JSON primitive p is encoded as {type:'plain', data:p}; an array keeps
\* its length and order and a dictionary its keys, at every depth; and decoding
\* the node gives a value equal to the one encoded.
C18_PlainRoundTrip ==
    IsPlainData(codec.obj) =>
        /\ ~codec.threw
        /\ KeepsShape(codec.obj, codec.node)
        /\ codec.back.done => (~codec.back.threw /\ codec.back.value = codec.obj)

\* C18 without the dictionaries that have a key 'constructor'
RECURSIVE NoConstructorKey(_)

NoConstructorKey(v) ==
    /\ \A i \in DOMAIN v.keys : v.keys[i] # "constructor"
    /\ \A i \in DOMAIN v.items : NoConstructorKey(v.items[i])

PlainRoundTripOtherwise ==
    (IsPlainData(codec.obj) /\ NoConstructorKey(codec.obj)) =>
        /\ ~codec.threw
        /\ KeepsShape(codec.obj, codec.node)
        /\ codec.back.done => (~codec.back.threw /\ codec.back.value = codec.obj)

\* C19: a date at N whole seconds from the epoch is encoded as
\* {type:'date', data:N}, and that node is decoded to the date at N * 1000
\* milliseconds, the date that was encoded.
C19_DateRoundTrip ==
    \A N \in Seconds :
        codec.obj = DateV(N * 1000) =>
            /\ ~codec.threw
            /\ codec.node = Obj(<<"type", "data">>, <<Str("date"), Num(N)>>)
            /\ codec.back.done => (~codec.back.threw /\ codec.back.value = DateV(N * 1000))

\* the date 1500 seconds after the epoch has been encoded and decoded
C19_Witness ==
    /\ codec.obj = DateV(1500000)
    /\ Get(codec.node, "data") = Num(1500)
    /\ codec.back.done
    /\ codec.back.value = DateV(1500000)


(***************************************************************************)
(* Properties of the first version (LegacySpec).                           *)
(***************************************************************************)
\* C21: once _releaseObjectWithId has released the id of a cached object,
\* that id stays unresolvable by getCachedObject, whatever is encoded later
\* (encoding the same object again takes a new id, not the released one).
C21_ReleasedIdNotReused ==
    released.obj # Undef => getCachedObject(TheLegacy, released.id) = Undef

\* the id an object was given first is the id every later encode of it returns:
\* the WeakMap outlives the release
LegacyIdStable ==
    (/\ codec.obj # Undef
     /\ ~codec.threw
     /\ Get(codec.node, "type") = Str("reference"))
        => Get(codec.node, "objId") = Num(objIdMap[codec.obj])

\* the second version's encoding of the value the first version encoded last
SecondVersion == wrapToJson(ThePool, codec.obj)

HasKey(obj, key) == \E i \in DOMAIN obj.keys : obj.keys[i] = key

\* the first version leaves a specifier alone when it is a container or its class
\* query answers 'application'
LeftAlone(h) ==
    \/ h.whose /\ h.at
    \/ h.hasClass /\ h.classQuery = "ok" /\ h.class = "application"

\* the first version cannot determine the class: no container, and the class
\* query does not answer
Undetermined(h) == ~(h.whose /\ h.at) /\ ~(h.hasClass /\ h.classQuery = "ok")

\* the type tag of the node of a value that is no specifier
TypeOfData(v) ==
    CASE isJsonNodeValue(v)  -> "plain"
      [] v.k = "date"        -> "date"
      [] v.k = "array"       -> "array"
      [] v.k = "object"      -> "dict"
      [] OTHER               -> "reference"

\* what C22 and its amended form share: the second version calls no specifier;
\* the first calls exactly the specifiers it does not leave alone, and when the
\* class is undetermined its node is that of the evaluated value (or the call
\* raises and so does the encoder)
LegacyEvaluation ==
    /\ SecondVersion.evaluated = {}
    /\ ~SecondVersion.threw
    /\ Get(SecondVersion.value, "type") = Str("reference")
    /\ codec.evaluated = IF LeftAlone(Encoded) THEN {} ELSE {codec.obj}
    /\ Undetermined(Encoded) =>
           IF Evaluate(codec.obj) = HostRaises THEN codec.threw
           ELSE /\ ~codec.threw
                /\ Get(codec.node, "type") = Str(TypeOfData(Evaluate(codec.obj)))

\* C22: on the same specifier the two encoders differ exactly in the host
\* evaluation: the second version never calls the specifier, the first calls it
\* when the class cannot be determined (and encodes what it gives) and whenever
\* the specifier is neither an application nor a container; where the first
\* version makes no call, the two return the same node.
C22_DifferOnlyInEvaluation ==
    codec.obj \in Specifiers =>
        /\ LegacyEvaluation
        /\ LeftAlone(Encoded)
               => /\ ~codec.threw
                  /\ codec.node = SecondVersion.value

\* C22 amended: as C22, but where the first version makes no call the two nodes
\* agree in type and not in their fields: the first version's node has plainRepr (null)
\* and no app, the second's has app and no plainRepr, and a specifier of nominal
\* class 'application' is 'application' to the second whatever its shape, and to
\* the first 'array::application' if a container and what its class query
\* answers otherwise.  Where the first version calls a specifier whose class it has
\* determined, its node has that class and the evaluated value (null if not
\* plain) as plainRepr, unless the call raises, and then so does the encoder.
C22_DifferInEvaluationAndNode ==
    codec.obj \in Specifiers =>
        /\ LegacyEvaluation
        /\ ~Undetermined(Encoded)
               => IF ~LeftAlone(Encoded) /\ Evaluate(codec.obj) = HostRaises
                  THEN codec.threw
                  ELSE
                  /\ ~codec.threw
                  /\ Get(codec.node, "type") = Str("reference")
                  /\ HasKey(codec.node, "plainRepr") /\ ~HasKey(codec.node, "app")
                  /\ HasKey(SecondVersion.value, "app")
                  /\ ~HasKey(SecondVersion.value, "plainRepr")
                  /\ Get(codec.node, "plainRepr") =
                         IF ~LeftAlone(Encoded) /\ isPlainObj(Evaluate(codec.obj))
                         THEN Evaluate(codec.obj) ELSE Null
                  /\ IF Encoded.classOf = "application"
                     THEN /\ Get(codec.node, "className") =
                                 IF Encoded.whose /\ Encoded.at THEN Str("array::application")
                                 ELSE Str(Encoded.class)
                          /\ Get(SecondVersion.value, "className") = Str("application")
                     ELSE Get(codec.node, "className") = Get(SecondVersion.value, "className")

\* the first version encoded a specifier whose class it could not determine as
\* the primitive the specifier evaluates to
C22_Witness ==
    /\ codec.obj \in Specifiers
    /\ codec.evaluated = {codec.obj}
    /\ ~codec.threw
    /\ Get(codec.node, "type") = Str("plain")
    /\ Get(SecondVersion.value, "className") \in {Str("item"), Str("unknown")}

(***************************************************************************)
(* Properties of the handles a caller is told of (Spec, MethodSpec).       *)
(***************************************************************************)
RECURSIVE ObjIdsIn(_)

\* the numbers that are the objId of a reference node anywhere in v
ObjIdsIn(v) ==
    (IF v.k = "object" /\ Get(v, "type") = Str("reference") /\ Get(v, "objId").k = "number"
     THEN {Get(v, "objId")} ELSE {})
        \cup UNION {ObjIdsIn(v.items[i]) : i \in DOMAIN v.items}

\* the objIds of the reference nodes in the response string of the last request
ResponseObjIds ==
    IF response.kind = "string" THEN ObjIdsIn(Revive(response.text)) ELSE {}

\* C23: every id in the pool has been the objId of a reference node of some
\* response: each request's response string holds every id the request put into
\* the pool (an id is put into the pool once, and no earlier response can hold it),
\* also when the request's encode fails after it has allocated handles.
C23_LiveHandlesKnown ==
    [][\A id \in DOMAIN _idObjectMap' \ DOMAIN _idObjectMap : id \in ResponseObjIds']_vars

\* the same of the requests whose encode does not fail
NewHandlesReported ==
    []["Error wrapping result" \notin log'
           => \A id \in DOMAIN _idObjectMap' \ DOMAIN _idObjectMap : id \in ResponseObjIds']_vars

\* the next request is a read of the method n of the object the pool holds under i
ReadsMethod(i, n) ==
    /\ op' = "getProperty"
    /\ request' = ReadRequest(i, n)
    /\ MapHas(_idObjectMap, Num(i))
    /\ isMethod(HostProperty(_idObjectMap[Num(i)], n))

\* a function made by binding the method n to obj
IsBound(f, obj, n) == f.k = "function" /\ f.s = n /\ f.items = <<obj>>

\* C24: every getProperty of a method of a pooled object answers with a reference
\* node of className 'function' whose objId is an id the pool did not hold (the
\* counter's next value, so no earlier read returned it), and leaves the pool one
\* entry larger: the new id, bound to a function bound to the object.  Reads of
\* plain properties leave the pool as it was.
C24_MethodReadAllocates ==
    [][\A i \in ReadIds, n \in ReadNames :
         /\ ReadsMethod(i, n) =>
              /\ response'.kind = "string"
              /\ Revive(response'.text) =
                     Obj(<<"type", "objId", "className">>,
                         <<Str("reference"), Num(_currentId + 1), Str("function")>>)
              /\ ~MapHas(_idObjectMap, Num(_currentId + 1))
              /\ DOMAIN _idObjectMap' = DOMAIN _idObjectMap \cup {Num(_currentId + 1)}
              /\ \A id \in DOMAIN _idObjectMap : _idObjectMap'[id] = _idObjectMap[id]
              /\ IsBound(_idObjectMap'[Num(_currentId + 1)], _idObjectMap[Num(i)], n)
              /\ DOMAIN _objectIdMap' = DOMAIN _objectIdMap
                                            \cup {_idObjectMap'[Num(_currentId + 1)]}
         /\ (/\ op' = "getProperty"
             /\ request' = ReadRequest(i, n)
             /\ MapHas(_idObjectMap, Num(i))
             /\ ~isMethod(HostProperty(_idObjectMap[Num(i)], n)))
                => _idObjectMap' = _idObjectMap
      ]_vars

\* the same method of the same object has been read twice, and the pool holds
\* the two functions under two ids, the second of which the last response names
C24_Witness ==
    /\ op = "getProperty"
    /\ \E i, j \in DOMAIN _idObjectMap, n \in ReadNames :
          /\ i # j
          /\ MapHas(_idObjectMap, Num(1))
          /\ IsBound(_idObjectMap[i], _idObjectMap[Num(1)], n)
          /\ IsBound(_idObjectMap[j], _idObjectMap[Num(1)], n)
          /\ ResponseObjIds = {j}

=============================================================================
